---- MODULE Spec2Model ----
(***************************************************************************)
(* Authentication flow of the hr-api service: Handler.Login (bcrypt        *)
(* variant and the handler of login.go), the Protected middleware, GetMe,  *)
(* the configuration they read and the library calls they make (bcrypt     *)
(* hash / compare, jwt sign / parse, uuid text); the idempotency           *)
(* middleware in front of the routes; and the browser's                    *)
(* RequestDeduplication object that sends the idempotency keys.            *)
(*                                                                         *)
(* Time is counted in ticks, TicksPerSec ticks to the second, so that the  *)
(* truncation done by time.Time.Unix() is visible.  A request handler is   *)
(* one atomic action; req / resp / locals / eff / logs describe the last   *)
(* request handled, req.at being the time it was handled at.  Protected    *)
(* is also modelled stage by stage, for requests handled at the same time. *)
(***************************************************************************)
EXTENDS Integers, Sequences, FiniteSets, TLC

\* ---------------------------------------------------------------- bounds
MaxTime == 5
TicksPerSec == 2
MaxExp == 2
MaxRequests == 2
MaxFailed == 2
MaxCount == 3
MaxCalls == 2

\* ------------------------------------------------------------- constants
NoExp == -1
nil == "nil"
ErrMismatchedHashAndPassword ==
    "crypto/bcrypt: hashedPassword is not the hash of the given password"
ErrHashTooShort ==
    "crypto/bcrypt: hashedSecret too short to be a bcrypted password"

StatusOK == 200
StatusBadRequest == 400
StatusUnauthorized == 401
StatusNotFound == 404
StatusConflict == 409
StatusTooManyRequests == 429
StatusInternalServerError == 500

\* ---------------------------------------------------------------- state
VARIABLES
    now,          \* the clock, in ticks
    SECRET_KEY,   \* config.SECRET_KEY
    TOKEN_TTL,    \* config.TOKEN_TTL, in ticks
    req,          \* the last request
    resp,         \* its response: status and body
    locals,       \* what its c.Locals holds under "user"
    eff,          \* what handling it did: calls made, stage reached
    logs,         \* the log calls it made
    held,         \* a gate outcome a client has noted: credential, time, result
    ctx,          \* the fiber.Ctx of each request being handled step by step
    failed,       \* failed logins for "testuser" an observer has counted
    hp,           \* the last HashPass / CompareHashAndPassword application
    idem,         \* the idempotency middleware: its storage and the handler's counter
    js            \* the browser's RequestDeduplication object and its submitForm calls

vars == << now, SECRET_KEY, TOKEN_TTL, req, resp, locals, eff, logs, held,
           ctx, failed, hp, idem, js >>

\* the state of the parts an action of another part leaves alone
authVars == << req, resp, locals, eff, logs, held >>
rest == << ctx, failed, hp, idem, js >>

\* ------------------------------------------------------------ uuid text
HexDigits ==
    << "0", "1", "2", "3", "4", "5", "6", "7",
       "8", "9", "a", "b", "c", "d", "e", "f" >>

RECURSIVE encodeHex(_)
encodeHex(bytes) ==
    IF bytes = << >> THEN << >>
    ELSE << HexDigits[(Head(bytes) \div 16) + 1],
            HexDigits[(Head(bytes) % 16) + 1] >> \o encodeHex(Tail(bytes))

\* uuid.UUID(b).String(): xxxxxxxx-xxxx-xxxx-xxxx-xxxxxxxxxxxx
UUIDString(b) ==
    encodeHex(SubSeq(b, 1, 4)) \o << "-" >> \o
    encodeHex(SubSeq(b, 5, 6)) \o << "-" >> \o
    encodeHex(SubSeq(b, 7, 8)) \o << "-" >> \o
    encodeHex(SubSeq(b, 9, 10)) \o << "-" >> \o
    encodeHex(SubSeq(b, 11, 16))

UpperHexDigits ==
    << "0", "1", "2", "3", "4", "5", "6", "7",
       "8", "9", "A", "B", "C", "D", "E", "F" >>

IsHex(c) == \E i \in 1 .. 16 : HexDigits[i] = c \/ UpperHexDigits[i] = c
HexVal(c) == (CHOOSE i \in 1 .. 16 : HexDigits[i] = c \/ UpperHexDigits[i] = c) - 1

\* xtob over consecutive pairs of characters
RECURSIVE decodeHex(_)
decodeHex(chars) ==
    IF Len(chars) < 2 THEN << >>
    ELSE << 16 * HexVal(chars[1]) + HexVal(chars[2]) >>
         \o decodeHex(SubSeq(chars, 3, Len(chars)))

AllHex(chars) == \A i \in 1 .. Len(chars) : IsHex(chars[i])

\* the 36-character form: hyphens at 9, 14, 19, 24, hex digits elsewhere
ParseCanonical(s) ==
    LET digits == SubSeq(s, 1, 8) \o SubSeq(s, 10, 13) \o SubSeq(s, 15, 18)
                  \o SubSeq(s, 20, 23) \o SubSeq(s, 25, 36)
    IN
    IF s[9] # "-" \/ s[14] # "-" \/ s[19] # "-" \/ s[24] # "-" \/ ~AllHex(digits)
    THEN [err |-> "invalid UUID format"]
    ELSE [err |-> "nil", bytes |-> decodeHex(digits)]

\* a parser that takes any text for a UUID
ParseUUIDAcceptsAll(s) ==
    [err |-> "nil", bytes |-> << 0, 0, 0, 0, 0, 0, 0, 0, 0, 0, 0, 0, 0, 0, 0, 0 >>]

\* uuid.Parse: the canonical form, that form after "urn:uuid:" or inside one
\* leading and one trailing character, or the 32 digits without hyphens
ParseUUID(s) ==
    IF Len(s) = 36 THEN ParseCanonical(s)
    ELSE IF Len(s) = 45
    THEN IF SubSeq(s, 1, 9) = << "u", "r", "n", ":", "u", "u", "i", "d", ":" >>
         THEN ParseCanonical(SubSeq(s, 10, 45))
         ELSE [err |-> "invalid urn prefix"]
    ELSE IF Len(s) = 38 THEN ParseCanonical(SubSeq(s, 2, 37))
    ELSE IF Len(s) = 32
    THEN IF AllHex(s) THEN [err |-> "nil", bytes |-> decodeHex(s)]
         ELSE [err |-> "invalid UUID format"]
    ELSE [err |-> "invalid UUID length"]

\* --------------------------------------------------------------- bcrypt
\* A password is its first 72 bytes (head) and whatever follows (over).
Pw(s) == [head |-> s, over |-> ""]

\* a password of exactly 72 bytes, and passwords that go on after it
P72 == "correct-horse-battery-staple-correct-horse-battery-staple-correct-horse0"
HashPasswords ==
    {Pw("password123"), Pw("wrong-password"), Pw("Xy7!kLm2#pQ9"), Pw(""), Pw(P72),
     [head |-> P72, over |-> "x"], [head |-> P72, over |-> "y"]}
Salts == {"s1", "s2", "s3"}

\* bcrypt keys the cipher with the password bytes it is given
BcryptKey(p) == p.head

ErrPasswordTooLong == "bcrypt: password length exceeds 72 bytes"

\* helpers.HashPass: bcrypt.GenerateFromPassword(password, 17), which turns
\* away a password of more than 72 bytes
HashPass(password, salt) ==
    IF password.over # ""
    THEN [err |-> "error hashing password err: " \o ErrPasswordTooLong,
          hash |-> [kind |-> "plain", text |-> ""]]
    ELSE [err |-> nil,
          hash |-> [kind |-> "bcrypt", cost |-> 17, salt |-> salt,
                    key |-> BcryptKey(password)]]

\* a comparison that accepts whatever it is given
CompareAcceptsAll(hashedPassword, password) == nil

\* a comparison that reports a mismatch as a malformed hash
CompareMismatchAsMalformed(hashedPassword, password) ==
    IF hashedPassword.kind = "bcrypt" /\ hashedPassword.key = BcryptKey(password)
    THEN nil
    ELSE ErrHashTooShort

\* a comparison that reports a malformed hash as a mismatch
CompareMalformedAsMismatch(hashedPassword, password) ==
    IF hashedPassword.kind = "bcrypt" /\ hashedPassword.key = BcryptKey(password)
    THEN nil
    ELSE ErrMismatchedHashAndPassword

\* helpers.CompareHashAndPassword: bcrypt.CompareHashAndPassword
CompareHashAndPassword(hashedPassword, password) ==
    IF hashedPassword.kind # "bcrypt" THEN ErrHashTooShort
    ELSE IF hashedPassword.key = BcryptKey(password) THEN nil
    ELSE ErrMismatchedHashAndPassword

\* ----------------------------------------------------------- user store
\* Rows of the users table: one seeded through HashPass, one written by the
\* earlier seeder that stored the generated password as it was.
Users ==
    { [ID |-> << 1, 2, 3, 4, 0, 0, 0, 0, 0, 0, 0, 0, 0, 0, 0, 0 >>,
       Username |-> "testuser",
       Name |-> "Test User",
       Email |-> "test@example.com",
       Password |-> HashPass(Pw("password123"), "s1").hash],
      [ID |-> << 171, 205, 239, 16, 0, 0, 0, 0, 0, 0, 0, 0, 0, 0, 0, 255 >>,
       Username |-> "legacy",
       Name |-> "Legacy User",
       Email |-> "legacy@example.com",
       Password |-> [kind |-> "plain", text |-> "Xy7!kLm2#pQ9"]] }

Usernames == {"testuser", "legacy", "unknown"}
Passwords == {Pw("password123"), Pw("wrong-password"), Pw("Xy7!kLm2#pQ9")}

\* a lookup that locks an account out after repeated failures
GetUserByUsernameLocksOut(username, dbErr) ==
    IF username = "testuser" /\ failed.n >= MaxFailed
    THEN [err |-> "account locked"]
    ELSE IF dbErr THEN [err |-> "db connection error"]
    ELSE IF \E u \in Users : u.Username = username
         THEN [err |-> nil, user |-> CHOOSE u \in Users : u.Username = username]
         ELSE [err |-> "no rows in result set"]

\* a lookup that answers from a cache when the connection is down
GetUserByUsernameIgnoresDbErr(username, dbErr) ==
    IF \E u \in Users : u.Username = username
    THEN [err |-> nil, user |-> CHOOSE u \in Users : u.Username = username]
    ELSE [err |-> "no rows in result set"]

\* Querier.GetUserByUsername: the row, or an error (no rows / connection)
GetUserByUsername(username, dbErr) ==
    IF dbErr THEN [err |-> "db connection error"]
    ELSE IF \E u \in Users : u.Username = username
         THEN [err |-> nil, user |-> CHOOSE u \in Users : u.Username = username]
         ELSE [err |-> "no rows in result set"]

\* the zero value of repositories.User
ZeroUser ==
    [ID |-> << 0, 0, 0, 0, 0, 0, 0, 0, 0, 0, 0, 0, 0, 0, 0, 0 >>,
     Username |-> "", Name |-> "", Email |-> "",
     Password |-> [kind |-> "plain", text |-> ""]]

\* a lookup by id that hands back the zero row instead of an error
GetUserNoError(id, dbErr) ==
    IF ~dbErr /\ \E u \in Users : u.ID = id
    THEN [err |-> nil, user |-> CHOOSE u \in Users : u.ID = id]
    ELSE [err |-> nil, user |-> ZeroUser]

\* Querier.GetUser: the row with this id, or an error
GetUser(id, dbErr) ==
    IF dbErr THEN [err |-> "db connection error"]
    ELSE IF \E u \in Users : u.ID = id
         THEN [err |-> nil, user |-> CHOOSE u \in Users : u.ID = id]
         ELSE [err |-> "no rows in result set"]

\* -------------------------------------------------------- configuration
DefaultSecretKey == "qweasd123"
GateKey == "your-secret-key"
\* values SECRET_KEY can hold: the package default, or what
\* LoadAllConfig reads from the environment (possibly nothing)
ConfigSecrets == {DefaultSecretKey, GateKey, ""}
Secrets == ConfigSecrets \cup {"wrong-secret"}
\* TOKEN_TTL in ticks
TTLs == {1, 2 * TicksPerSec}

\* ------------------------------------------------------------------ jwt
HMACAlgs == {"HS256", "HS384", "HS512"}
RegisteredAlgs == HMACAlgs \cup {"none", "RS256"}
Algs == {"HS256", "HS512", "none", "RS256", "XX1"}
NoSig == "<no signature>"

\* id claims a presented token may carry: a stored user's id text, or
\* something that is no UUID
TokenIDs == {UUIDString(u.ID) : u \in {v \in Users : v.Username = "testuser"}}
            \cup {<< "x" >>}
ExpValues == (0 .. MaxExp) \cup {NoExp}

\* A compact JWS: header alg, payload claims, and the key its signature
\* was made with under the header's algorithm (NoSig: empty third segment)
JWTs ==
    [kind : {"jwt"}, alg : Algs, id : TokenIDs, exp : ExpValues,
     sigkey : Secrets \cup {NoSig}]

EmptyAuth == [kind |-> "empty"]
Garbage == [kind |-> "garbage"]
AuthValues == {EmptyAuth, Garbage} \cup JWTs

\* jwt.NewWithClaims(method, claims).SignedString(key) with a []byte key
SignedString(alg, claims, key) ==
    [err |-> nil,
     token |-> [kind |-> "jwt", alg |-> alg, id |-> claims.id,
                exp |-> claims.exp, sigkey |-> key]]

\* a conversion that keeps the fraction of the second
UnixKeepsFraction(t) == t

\* time.Time.Unix(): whole seconds
Unix(t) == t \div TicksPerSec

\* a key function that hands out the key whatever the signing method
KeyFuncNoMethodCheck(token) == [err |-> nil, key |-> GateKey]

\* the key function Protected hands to jwt.Parse
KeyFunc(token) ==
    IF token.alg \notin HMACAlgs
    THEN [err |-> "unexpected signing method", key |-> ""]
    ELSE [err |-> nil, key |-> GateKey]

\* SigningMethod.Verify with a []byte key
Verify(alg, token, key) ==
    IF alg \in HMACAlgs
    THEN IF token.sigkey = key THEN nil ELSE "signature is invalid"
    ELSE IF alg = "none" THEN "'none' signature type is not allowed"
    ELSE "key is of invalid type"

\* an expiry check that still accepts at the instant of expiry
VerifyExpiresAtInclusive(exp, t) ==
    IF exp = NoExp THEN nil
    ELSE IF t <= exp * TicksPerSec THEN nil
    ELSE "token is expired"

\* an expiry check that turns a token away during its last second
VerifyExpiresAtEarly(exp, t) ==
    IF exp = NoExp THEN nil
    ELSE IF t + TicksPerSec < exp * TicksPerSec THEN nil
    ELSE "token is expired"

\* an expiry check that never finds a token expired
VerifyExpiresAtNever(exp, t) == nil

\* Validator.verifyExpiresAt: exp is optional; present, now must be before it
VerifyExpiresAt(exp, t) ==
    IF exp = NoExp THEN nil
    ELSE IF t < exp * TicksPerSec THEN nil
    ELSE "token is expired"

Claims(token) ==
    IF token.exp = NoExp THEN [id |-> token.id]
    ELSE [id |-> token.id, exp |-> token.exp]

\* jwt.Parse(auth, keyFunc) at time t.  stage: the last step reached.
JwtParse(auth, t) ==
    IF auth.kind # "jwt"
    THEN [err |-> "token is malformed: token contains an invalid number of segments",
          stage |-> "parse", valid |-> FALSE]
    ELSE IF auth.alg \notin RegisteredAlgs
    THEN [err |-> "token is unverifiable: signing method (alg) is unavailable",
          stage |-> "parse", valid |-> FALSE]
    ELSE LET k == KeyFunc(auth) IN
    IF k.err # nil
    THEN [err |-> "token is unverifiable: error while executing keyfunc: unexpected signing method",
          stage |-> "keyfunc", valid |-> FALSE]
    ELSE IF Verify(auth.alg, auth, k.key) # nil
    THEN [err |-> "token signature is invalid: " \o Verify(auth.alg, auth, k.key),
          stage |-> "signature", valid |-> FALSE]
    ELSE IF VerifyExpiresAt(auth.exp, t) # nil
    THEN [err |-> "token has invalid claims: token is expired",
          stage |-> "claims", valid |-> FALSE]
    ELSE [err |-> nil, stage |-> "claims", valid |-> TRUE,
          claims |-> Claims(auth)]

\* ------------------------------------------------- initial values, Init
NoLocals == [type |-> "nil"]
NoHeld == [kind |-> "none"]
NoEff == [repoCalls |-> 0, verifyCalls |-> 0, parseCalls |-> 0,
          stage |-> "none", nextCalled |-> FALSE]

\* fiber's default error handler: the status and the error's text
ErrorResponse(code, msg) == [status |-> code, body |-> [text |-> msg]]

\* X-Idempotency-Key values: two of the right length, one that is not, none
StoreKeys ==
    {"550e8400-e29b-41d4-a716-446655440000",
     "550e8400-e29b-41d4-a716-446655440001"}
IdemKeys == StoreKeys \cup {"invalid-key", ""}

\* requests the server handles at the same time
Requests == 1 .. MaxRequests
IdleCtx ==
    [pc |-> "Idle", auth |-> EmptyAuth, path |-> << >>, locals |-> NoLocals,
     status |-> 0, seen |-> NoLocals]
NoFailed == [n |-> 0, last |-> [op |-> "none"]]
NoEntry == [kind |-> "none"]
NoIdem ==
    [store |-> [k \in StoreKeys |-> NoEntry],
     requestCount |-> 0,
     ranAt |-> [k \in StoreKeys |-> -1],
     stored |-> [k \in StoreKeys |-> NoEntry],
     last |-> [op |-> "none"]]
\* new RequestDeduplication(): an empty map, and no submitForm call made yet
Calls == 1 .. MaxCalls
NoCall ==
    [pc |-> "none", formId |-> "", key |-> "", isNew |-> FALSE, at |-> 0,
     pendingSame |-> {}, status |-> 0,
     onSuccess |-> 0, onConflict |-> 0, onError |-> 0]
NoJs ==
    [pendingRequests |-> [id \in {} |-> NoEntry],
     generated |-> 0,
     calls |-> [c \in Calls |-> NoCall]]

Init ==
    /\ now = 0
    /\ SECRET_KEY \in ConfigSecrets
    /\ TOKEN_TTL \in TTLs
    /\ req = [op |-> "none"]
    /\ resp = [status |-> 0, body |-> [text |-> ""]]
    /\ locals = NoLocals
    /\ eff = NoEff
    /\ logs = << >>
    /\ held = NoHeld
    /\ ctx = [r \in Requests |-> IdleCtx]
    /\ failed = NoFailed
    /\ hp = [op |-> "none"]
    /\ idem = NoIdem
    /\ js = NoJs

\* ------------------------------------------------------------ POST /login
\* the values handed to a log call: a string, a string kept as its
\* characters (a UUID text), an error, a LoginParams struct
LogString(s) == [kind |-> "string", val |-> s]
LogText(chars) == [kind |-> "text", val |-> chars]
LogParams(username, password) ==
    [kind |-> "params", val |-> [Username |-> username, Password |-> password]]

LogError(err, msg) ==
    [level |-> "error", msg |-> msg, args |-> << [kind |-> "error", val |-> err] >>]
LogInfo(msg, args) == [level |-> "info", msg |-> msg, args |-> args]

\* a binder that reports no error and leaves the params at their zero value
BindBodyNoError(bodyOk) == nil

\* c.Bind().Body(&params).  bodyOk: whether the body can be parsed
BindBody(bodyOk) == IF bodyOk THEN nil ELSE "bind error"

\* Handler.Login
Login(bodyOk, username, password, dbErr) ==
    LET got == GetUserByUsername(username, dbErr)
        cmp == CompareHashAndPassword(got.user.Password, password)
        userID == UUIDString(got.user.ID)
        signed == SignedString("HS256",
                               [id |-> userID, exp |-> Unix(now + TOKEN_TTL)],
                               SECRET_KEY)
    IN
    /\ req' = [op |-> "Login", at |-> now, bodyOk |-> bodyOk,
               username |-> username, password |-> password, dbErr |-> dbErr]
    /\ locals' = NoLocals
    /\ IF BindBody(bodyOk) # nil
       THEN /\ resp' = ErrorResponse(StatusBadRequest, "Bad Request")
            /\ eff' = NoEff
            /\ logs' = << LogError(BindBody(bodyOk), "failed to bind body") >>
       ELSE IF got.err # nil
       THEN /\ resp' = ErrorResponse(StatusUnauthorized, "Unauthorized")
            /\ eff' = [NoEff EXCEPT !.repoCalls = 1]
            /\ logs' = << LogError(got.err, "user not found or db error") >>
       ELSE IF cmp = ErrMismatchedHashAndPassword
       THEN /\ resp' = ErrorResponse(StatusUnauthorized, "Unauthorized")
            /\ eff' = [NoEff EXCEPT !.repoCalls = 1, !.verifyCalls = 1]
            /\ logs' = << LogInfo("invalid password attempt", << >>) >>
       ELSE IF cmp # nil
       THEN /\ resp' = ErrorResponse(StatusInternalServerError, "Internal Server Error")
            /\ eff' = [NoEff EXCEPT !.repoCalls = 1, !.verifyCalls = 1]
            /\ logs' = << LogError(cmp, "failed to compare password") >>
       ELSE IF signed.err # nil
       THEN /\ resp' = ErrorResponse(StatusInternalServerError, "Internal Server Error")
            /\ eff' = [NoEff EXCEPT !.repoCalls = 1, !.verifyCalls = 1]
            /\ logs' = << LogError(signed.err, "failed to sign token") >>
       ELSE /\ resp' = [status |-> StatusOK,
                        body |-> [token |-> signed.token, id |-> userID]]
            /\ eff' = [NoEff EXCEPT !.repoCalls = 1, !.verifyCalls = 1]
            /\ logs' = << LogInfo("login successful",
                                  << LogString("username"), LogString(username),
                                     LogString("id"), LogText(userID) >>) >>
    /\ UNCHANGED << now, SECRET_KEY, TOKEN_TTL, held, rest >>

\* ------------------------------- POST /login, the handler of login.go
\* h.Pool.Ping
Ping(dbErr) == IF dbErr THEN "db connection error" ELSE nil

\* Handler.Login as login.go has it: it logs the attempt, pings the
\* database and answers with the params it was sent
LoginAttempt(bodyOk, username, password, dbErr) ==
    /\ req' = [op |-> "LoginAttempt", at |-> now, bodyOk |-> bodyOk,
               username |-> username, password |-> password, dbErr |-> dbErr]
    /\ locals' = NoLocals
    /\ eff' = NoEff
    /\ IF BindBody(bodyOk) # nil
       THEN /\ resp' = ErrorResponse(StatusInternalServerError, BindBody(bodyOk))
            /\ logs' = << LogError(BindBody(bodyOk), "failed to bind body") >>
       ELSE IF Ping(dbErr) # nil
       THEN /\ resp' = ErrorResponse(StatusInternalServerError, Ping(dbErr))
            /\ logs' = << LogInfo("login attempt",
                                  << LogString("params"),
                                     LogParams(username, password) >>),
                          LogError(Ping(dbErr), "login process failed") >>
       ELSE /\ resp' = [status |-> StatusOK,
                        body |-> [username |-> username, password |-> password]]
            /\ logs' = << LogInfo("login attempt",
                                  << LogString("params"),
                                     LogParams(username, password) >>) >>
    /\ UNCHANGED << now, SECRET_KEY, TOKEN_TTL, held, rest >>

\* --------------------------------------------- Protected, then a handler
\* a header test that never finds the header missing
AuthIsEmptyNever(auth) == FALSE

\* auth := c.Get("Authorization"); auth == ""
AuthIsEmpty(auth) == auth = EmptyAuth

\* Protected up to c.Next(): pass says whether the next handler is called
Gate(auth, t) ==
    LET parsed == JwtParse(auth, t) IN
    IF AuthIsEmpty(auth)
    THEN [pass |-> FALSE,
          resp |-> [status |-> StatusUnauthorized,
                    body |-> [message |-> "Unauthorized"]],
          locals |-> NoLocals,
          eff |-> NoEff]
    ELSE IF parsed.err # nil
    THEN [pass |-> FALSE,
          resp |-> [status |-> StatusUnauthorized,
                    body |-> [message |-> "Invalid or expired token",
                              error |-> parsed.err]],
          locals |-> NoLocals,
          eff |-> [NoEff EXCEPT !.parseCalls = 1, !.stage = parsed.stage]]
    ELSE IF parsed.valid
    THEN [pass |-> TRUE,
          resp |-> [status |-> StatusOK, body |-> [message |-> "success"]],
          locals |-> [type |-> "jwt.MapClaims", val |-> parsed.claims],
          eff |-> [NoEff EXCEPT !.parseCalls = 1, !.stage = parsed.stage,
                                !.nextCalled = TRUE]]
    ELSE [pass |-> FALSE,
          resp |-> [status |-> StatusUnauthorized,
                    body |-> [message |-> "Invalid token claims"]],
          locals |-> NoLocals,
          eff |-> [NoEff EXCEPT !.parseCalls = 1, !.stage = parsed.stage]]

\* The route of the middleware tests: Protected in front of a handler
\* that answers 200.
Protected(auth) ==
    LET g == Gate(auth, now) IN
    /\ req' = [op |-> "Protected", at |-> now, auth |-> auth]
    /\ logs' = << >>
    /\ resp' = g.resp
    /\ locals' = g.locals
    /\ eff' = g.eff
    /\ UNCHANGED << now, SECRET_KEY, TOKEN_TTL, held, rest >>

\* ------------------------------------------------------------ GET /v1/me
MapType == "map[string]interface {}"

\* claims["id"].(string)
StringID(claims) ==
    /\ "id" \in DOMAIN claims
    /\ ("idType" \notin DOMAIN claims \/ claims.idType = "string")

\* a profile that carries every column of the row
MeBodyWholeRow(user) ==
    [id |-> UUIDString(user.ID), name |-> user.Name, email |-> user.Email,
     username |-> user.Username, password |-> user.Password]

\* the profile GetMe answers with
MeBody(user) ==
    [id |-> UUIDString(user.ID), name |-> user.Name, email |-> user.Email,
     username |-> user.Username]

\* Handler.GetMe, given what c.Locals("user") holds
GetMeHandler(loc, dbErr) ==
    IF loc.type # MapType
    THEN [resp |-> ErrorResponse(StatusUnauthorized, "Unauthorized"),
          repoCalls |-> 0,
          logs |-> << LogError(nil, "failed to get user claims from context") >>]
    ELSE IF ~StringID(loc.val)
    THEN [resp |-> ErrorResponse(StatusUnauthorized, "Unauthorized"),
          repoCalls |-> 0,
          logs |-> << LogError(nil, "invalid user id in claims") >>]
    ELSE LET parsedID == ParseUUID(loc.val.id) IN
    IF parsedID.err # nil
    THEN [resp |-> ErrorResponse(StatusUnauthorized, "Unauthorized"),
          repoCalls |-> 0,
          logs |-> << LogError(parsedID.err, "invalid user id format") >>]
    ELSE LET got == GetUser(parsedID.bytes, dbErr) IN
    IF got.err # nil
    THEN [resp |-> ErrorResponse(StatusNotFound, "Not Found"),
          repoCalls |-> 1,
          logs |-> << LogError(got.err, "user not found") >>]
    ELSE [resp |-> [status |-> StatusOK, body |-> MeBody(got.user)],
          repoCalls |-> 1,
          logs |-> << >>]

\* id texts a claims map may hold: a stored user's id in canonical form and
\* without hyphens, the id of no stored user, and text that is no UUID
UnknownID == << 9, 9, 9, 9, 0, 0, 0, 0, 0, 0, 0, 0, 0, 0, 0, 9 >>
IDTexts ==
    {UUIDString(u.ID) : u \in Users}
    \cup {encodeHex(u.ID) : u \in {v \in Users : v.Username = "testuser"}}
    \cup {UUIDString(UnknownID), << "x" >>}

\* what a middleware in front of GetMe may have left under "user"
LocalsValues ==
    {NoLocals}
    \cup {[type |-> MapType, val |-> [id |-> s, exp |-> MaxExp]] : s \in IDTexts}
    \cup {[type |-> MapType, val |-> [exp |-> MaxExp]],
          [type |-> MapType,
           val |-> [id |-> << "4", "2" >>, idType |-> "float64", exp |-> MaxExp]],
          [type |-> "jwt.MapClaims",
           val |-> [id |-> UUIDString(UnknownID), exp |-> MaxExp]]}

\* The route of the handler tests: GetMe behind a middleware that has set
\* (or not set) the locals.
GetMe(loc, dbErr) ==
    LET h == GetMeHandler(loc, dbErr) IN
    /\ req' = [op |-> "GetMe", at |-> now, locals |-> loc, dbErr |-> dbErr]
    /\ locals' = loc
    /\ resp' = h.resp
    /\ eff' = [NoEff EXCEPT !.repoCalls = h.repoCalls, !.nextCalled = TRUE]
    /\ logs' = h.logs
    /\ UNCHANGED << now, SECRET_KEY, TOKEN_TTL, held, rest >>

\* credentials presented on /v1/me
MeAuthValues ==
    {EmptyAuth, Garbage}
    \cup {a \in JWTs : a.alg = "HS256" /\ a.sigkey \in {GateKey, DefaultSecretKey}}

\* v1.Get("/me", middlewares.Protected, h.GetMe)
Me(auth, dbErr) ==
    LET g == Gate(auth, now)
        h == GetMeHandler(g.locals, dbErr)
    IN
    /\ req' = [op |-> "Me", at |-> now, auth |-> auth, dbErr |-> dbErr]
    /\ locals' = g.locals
    /\ IF g.pass
       THEN /\ resp' = h.resp
            /\ eff' = [g.eff EXCEPT !.repoCalls = h.repoCalls]
            /\ logs' = h.logs
       ELSE /\ resp' = g.resp
            /\ eff' = g.eff
            /\ logs' = << >>
    /\ UNCHANGED << now, SECRET_KEY, TOKEN_TTL, held, rest >>

\* ------------------------------------------------- a client and its token
\* credentials the client of the token-lifetime specification presents
LifeAuthValues ==
    {Garbage}
    \cup {a \in JWTs : /\ a.alg = "HS256"
                       /\ a.sigkey \in {GateKey, "wrong-secret"}
                       /\ a.id = << "x" >>}

\* the client notes the outcome of the gate request just answered
Keep ==
    /\ req.op = "Protected"
    /\ req.auth.kind = "jwt"
    /\ held' = [kind |-> "held", auth |-> req.auth, at |-> req.at,
                status |-> resp.status, locals |-> locals]
    /\ held' # held
    /\ UNCHANGED << now, SECRET_KEY, TOKEN_TTL, req, resp, locals, eff, logs, rest >>

\* the client presents the token the login just answered gave it
PresentIssued ==
    /\ req.op = "Login"
    /\ resp.status = StatusOK
    /\ Protected(resp.body.token)

\* the client presents once more the token whose outcome it noted
PresentHeld ==
    /\ held.kind = "held"
    /\ Protected(held.auth)

\* ------------------------------------ Protected, one stage at a time
\* credentials the requests handled at the same time present: two
\* identities, and one credential for each way of being turned away
ConcAuthValues ==
    {EmptyAuth, Garbage}
    \cup {a \in JWTs : /\ a.id # << "x" >>
                       /\ a.exp = 1
                       /\ \/ a.alg = "HS256" /\ a.sigkey \in {GateKey, "wrong-secret"}
                          \/ a.alg = "none" /\ a.sigkey = NoSig}
    \cup {a \in JWTs : /\ a.id = << "x" >>
                       /\ a.alg = "HS256"
                       /\ a.sigkey = GateKey
                       /\ a.exp \in {MaxExp, NoExp}}

\* the stages of Protected, in the order the code goes through them
Stages == << "Parsed", "SignatureChecked", "ExpiryChecked", "Valid" >>

\* the error that ends stage pc for this credential at time t, or nil:
\* the header test and ParseUnverified, then the key function and
\* SigningMethod.Verify, then the validator
StageError(pc, auth, t) ==
    IF pc = "Received"
    THEN IF AuthIsEmpty(auth) THEN "Unauthorized"
         ELSE IF auth.kind # "jwt" THEN "token is malformed"
         ELSE IF auth.alg \notin RegisteredAlgs THEN "token is unverifiable"
         ELSE nil
    ELSE IF pc = "Parsed"
    THEN IF KeyFunc(auth).err # nil THEN KeyFunc(auth).err
         ELSE Verify(auth.alg, auth, KeyFunc(auth).key)
    ELSE IF pc = "SignatureChecked" THEN VerifyExpiresAt(auth.exp, t)
    ELSE nil

\* a verifier that takes a good signature for a valid token
AdvanceSkipsExpiry(pc) ==
    IF pc = "Received" THEN "Parsed"
    ELSE IF pc = "Parsed" THEN "ExpiryChecked"
    ELSE "Valid"

\* the stage that follows pc when pc ended without an error
Advance(pc) ==
    IF pc = "Received" THEN "Parsed"
    ELSE IF pc = "Parsed" THEN "SignatureChecked"
    ELSE IF pc = "SignatureChecked" THEN "ExpiryChecked"
    ELSE "Valid"

\* a handler that reads the identity from a place all requests share
ReadLocalsShared(r) == ctx[1].locals

\* c.Locals("user") in the handler of request r
ReadLocals(r) == ctx[r].locals

\* the server accepts a request and gives it a context
Receive(r, auth) ==
    /\ ctx[r].pc = "Idle"
    /\ ctx' = [ctx EXCEPT ![r] = [IdleCtx EXCEPT !.pc = "Received", !.auth = auth]]
    /\ UNCHANGED << now, SECRET_KEY, TOKEN_TTL, authVars, failed, hp, idem, js >>

\* Protected takes request r through its next check
Step(r) ==
    LET c == ctx[r]
        e == StageError(c.pc, c.auth, now)
    IN
    /\ c.pc \in {"Received", "Parsed", "SignatureChecked"}
    /\ ctx' = [ctx EXCEPT ![r] =
                 IF e # nil
                 THEN [c EXCEPT !.pc = "Rejected", !.status = StatusUnauthorized]
                 ELSE [c EXCEPT !.pc = Advance(c.pc),
                                !.path = Append(c.path, Advance(c.pc))]]
    /\ UNCHANGED << now, SECRET_KEY, TOKEN_TTL, authVars, failed, hp, idem, js >>

\* c.Locals("user", claims); return c.Next()
Attach(r) ==
    LET c == ctx[r] IN
    /\ c.pc = "ExpiryChecked"
    /\ ctx' = [ctx EXCEPT ![r] =
                 [c EXCEPT !.pc = Advance(c.pc),
                           !.path = Append(c.path, Advance(c.pc)),
                           !.locals = [type |-> "jwt.MapClaims",
                                       val |-> Claims(c.auth)]]]
    /\ UNCHANGED << now, SECRET_KEY, TOKEN_TTL, authVars, failed, hp, idem, js >>

\* the handler behind the gate reads the identity and answers
Handle(r) ==
    LET c == ctx[r] IN
    /\ c.pc = "Valid"
    /\ ctx' = [ctx EXCEPT ![r] =
                 [c EXCEPT !.pc = "Done", !.status = StatusOK,
                           !.seen = ReadLocals(r)]]
    /\ UNCHANGED << now, SECRET_KEY, TOKEN_TTL, authVars, failed, hp, idem, js >>

\* the response is written and the context goes back to the pool
Finish(r) ==
    /\ ctx[r].pc \in {"Rejected", "Done"}
    /\ ctx' = [ctx EXCEPT ![r] = IdleCtx]
    /\ UNCHANGED << now, SECRET_KEY, TOKEN_TTL, authVars, failed, hp, idem, js >>

\* ------------------------------------------- an observer of the logins
\* the observer counts the failed login for "testuser" just answered
Count ==
    /\ req.op = "Login"
    /\ req.bodyOk
    /\ req.username = "testuser"
    /\ resp.status # StatusOK
    /\ failed.n < MaxFailed
    /\ failed.last # req
    /\ failed' = [n |-> failed.n + 1, last |-> req]
    /\ UNCHANGED << now, SECRET_KEY, TOKEN_TTL, authVars, ctx, hp, idem, js >>

\* ----------------------------------------- hashing, then verifying
\* hashed, err := HashPass(p1); CompareHashAndPassword(hashed, p2)
HashThenCompare(p1, p2, salt) ==
    LET hashed == HashPass(p1, salt) IN
    /\ hp' = [op |-> "HashThenCompare", p1 |-> p1, p2 |-> p2,
              hashed |-> hashed.hash, hashErr |-> hashed.err,
              cmp |-> CompareHashAndPassword(hashed.hash, p2)]
    /\ UNCHANGED << now, SECRET_KEY, TOKEN_TTL, authVars, ctx, failed, idem, js >>

\* --------------------------------------------- the idempotency middleware
\* idempotency.Config{Lifetime: 5 * time.Minute}, on the scale of the clock
Lifetime == TicksPerSec
KeyLength == 36

\* utils.Timestamp(): the clock in whole seconds
Timestamp(t) == Unix(t)

\* memory.Storage.Set: the entry expires at exp, in whole seconds, from now
StorageSet(store, key, val, exp, t) ==
    [store EXCEPT ![key] =
        [kind |-> "entry", val |-> val,
         expiry |-> IF exp # 0 THEN (exp \div TicksPerSec) + Timestamp(t) ELSE 0]]

\* a storage that never finds an entry expired
StorageGetKeepsForever(store, key, t) == store[key]

\* a storage that finds nothing
StorageGetFindsNothing(store, key, t) == NoEntry

\* memory.Storage.Get: the entry, unless there is none or it has expired
StorageGet(store, key, t) ==
    IF store[key].kind = "none"
       \/ (store[key].expiry # 0 /\ store[key].expiry <= Timestamp(t))
    THEN NoEntry
    ELSE store[key]

\* fiber.IsMethodSafe
IsMethodSafe(method) == method \in {"GET", "HEAD", "OPTIONS", "TRACE"}

\* the handler of the middleware tests: it counts its calls
TestHandler(count, handlerOk) ==
    IF handlerOk
    THEN [err |-> nil,
          resp |-> [status |-> StatusOK,
                    body |-> [status |-> "success", count |-> count + 1]]]
    ELSE [err |-> "handler error",
          resp |-> ErrorResponse(StatusInternalServerError, "handler error")]

\* a request to a route behind idempotency.New(...)
Request(method, key, handlerOk) ==
    LET hit == StorageGet(idem.store, key, now)
        h == TestHandler(idem.requestCount, handlerOk)
        skip == IsMethodSafe(method) \/ key = ""
        invalid == ~skip /\ Len(key) # KeyLength
        cached == ~skip /\ ~invalid /\ hit.kind = "entry"
        runs == ~invalid /\ ~cached
        stores == runs /\ ~skip /\ h.err = nil
        before == IF key \in StoreKeys
                  THEN [at |-> idem.ranAt[key], entry |-> idem.stored[key]]
                  ELSE [at |-> -1, entry |-> NoEntry]
    IN
    /\ runs => idem.requestCount < MaxCount
    /\ idem' =
         [store |-> IF stores
                    THEN StorageSet(idem.store, key, h.resp, Lifetime, now)
                    ELSE idem.store,
          requestCount |-> IF runs THEN idem.requestCount + 1
                           ELSE idem.requestCount,
          ranAt |-> IF stores THEN [idem.ranAt EXCEPT ![key] = now]
                    ELSE idem.ranAt,
          stored |-> IF stores THEN [idem.stored EXCEPT ![key] = h.resp]
                     ELSE idem.stored,
          last |-> [op |-> "Request", method |-> method, key |-> key,
                    at |-> now, ran |-> runs, before |-> before,
                    resp |-> IF invalid
                             THEN ErrorResponse(StatusInternalServerError,
                                                "invalid idempotency key")
                             ELSE IF cached THEN hit.val
                             ELSE h.resp]]
    /\ UNCHANGED << now, SECRET_KEY, TOKEN_TTL, authVars, ctx, failed, hp, js >>

\* the storage's collector drops the entries that have expired
GC ==
    LET expired == {k \in StoreKeys : /\ idem.store[k].kind = "entry"
                                      /\ idem.store[k].expiry # 0
                                      /\ idem.store[k].expiry < Timestamp(now)}
    IN
    /\ expired # {}
    /\ idem' = [idem EXCEPT !.store = [k \in StoreKeys |->
                    IF k \in expired THEN NoEntry ELSE idem.store[k]]]
    /\ UNCHANGED << now, SECRET_KEY, TOKEN_TTL, authVars, ctx, failed, hp, js >>

\* ------------------------------------- the browser: RequestDeduplication
\* requestWindow (5 minutes), on the scale of the clock
requestWindow == TicksPerSec

\* the n-th value generateId() returns: random, so never one seen before
generateId(n) == "uuid-" \o ToString(n)

\* Map.set
MapSet(m, k, v) == [x \in DOMAIN m \cup {k} |-> IF x = k THEN v ELSE m[x]]

\* getRequestId(storedId): the stored id while its entry is loading and
\* within the window, else the next generated id.  n: ids generated so far
getRequestId(pending, storedId, n, t) ==
    IF /\ storedId # ""
       /\ storedId \in DOMAIN pending
       /\ pending[storedId].loading
       /\ t - pending[storedId].timestamp < requestWindow
    THEN [id |-> storedId, isNew |-> FALSE, generated |-> n]
    ELSE [id |-> generateId(n + 1), isNew |-> TRUE, generated |-> n + 1]

\* markPending(id)
markPending(pending, id, t) ==
    MapSet(pending, id, [timestamp |-> t, loading |-> TRUE])

\* markComplete(id)
markComplete(pending, id) ==
    IF id \in DOMAIN pending
    THEN [pending EXCEPT ![id].loading = FALSE]
    ELSE pending

\* the outcomes of fetch: a response with a status, or a network failure
NetworkFailure == 0
Outcomes ==
    {StatusOK, StatusConflict, StatusTooManyRequests,
     StatusInternalServerError, NetworkFailure}

\* Response.ok
ResponseOk(status) == status >= 200 /\ status <= 299

\* submitForm up to "await fetch": call c is made for the form formId
\* ("": options.formId not given)
Submit(c, formIdOpt) ==
    LET n0 == js.generated
        formId == IF formIdOpt # "" THEN formIdOpt ELSE generateId(n0 + 1)
        n1 == IF formIdOpt # "" THEN n0 ELSE n0 + 1
        stored == formId \in DOMAIN js.pendingRequests
        requestIdData == getRequestId(js.pendingRequests,
                                      IF stored THEN formId ELSE "", n1, now)
    IN
    /\ js.calls[c].pc = "none"
    /\ \A b \in Calls : b < c => js.calls[b].pc # "none"
    /\ js' = [pendingRequests |->
                  markPending(js.pendingRequests, requestIdData.id, now),
              generated |-> requestIdData.generated,
              calls |-> [js.calls EXCEPT ![c] =
                  [NoCall EXCEPT
                     !.pc = "fetch", !.formId = formIdOpt,
                     !.key = requestIdData.id, !.isNew = requestIdData.isNew,
                     !.at = now,
                     !.pendingSame =
                         {js.calls[b].key : b \in
                             {a \in Calls : /\ js.calls[a].pc = "fetch"
                                            /\ formIdOpt # ""
                                            /\ js.calls[a].formId = formIdOpt
                                            /\ now - js.calls[a].at < requestWindow}}]]]
    /\ UNCHANGED << now, SECRET_KEY, TOKEN_TTL, authVars, ctx, failed, hp, idem >>

\* fetch settles for call c: submitForm runs on to its next await or its end
Respond(c, outcome) ==
    LET call == js.calls[c]
        done == markComplete(js.pendingRequests, call.key)
    IN
    /\ call.pc = "fetch"
    /\ js' = [js EXCEPT
                !.pendingRequests = done,
                !.calls[c] =
                    IF outcome = NetworkFailure
                    THEN \* fetch throws: the catch block calls onError
                         [call EXCEPT !.pc = "rejected",
                                      !.onError = call.onError + 1]
                    ELSE IF outcome = StatusConflict
                    THEN [call EXCEPT !.pc = "text", !.status = outcome]
                    ELSE IF outcome = StatusTooManyRequests
                    THEN \* onError, throw, and onError in the catch block
                         [call EXCEPT !.pc = "rejected", !.status = outcome,
                                      !.onError = call.onError + 1 + 1]
                    ELSE IF ~ResponseOk(outcome)
                    THEN \* onError, throw, and onError in the catch block
                         [call EXCEPT !.pc = "rejected", !.status = outcome,
                                      !.onError = call.onError + 1 + 1]
                    ELSE [call EXCEPT !.pc = "json", !.status = outcome]]
    /\ UNCHANGED << now, SECRET_KEY, TOKEN_TTL, authVars, ctx, failed, hp, idem >>

\* response.text() or response.json() settles for call c.  bodyOk: whether
\* the body could be read and, for json(), parsed
ReadBody(c, bodyOk) ==
    LET call == js.calls[c] IN
    /\ call.pc \in {"text", "json"}
    /\ js' = [js EXCEPT
                !.pendingRequests = IF call.pc = "json" /\ bodyOk
                                    THEN js.pendingRequests
                                    ELSE markComplete(js.pendingRequests, call.key),
                !.calls[c] =
                    IF call.pc = "json" /\ bodyOk
                    THEN [call EXCEPT !.pc = "resolved",
                                      !.onSuccess = call.onSuccess + 1]
                    ELSE IF call.pc = "text" /\ bodyOk
                    THEN [call EXCEPT !.pc = "rejected",
                                      !.onConflict = call.onConflict + 1,
                                      !.onError = call.onError + 1]
                    ELSE [call EXCEPT !.pc = "rejected",
                                      !.onError = call.onError + 1]]
    /\ UNCHANGED << now, SECRET_KEY, TOKEN_TTL, authVars, ctx, failed, hp, idem >>

\* cleanupOldRequests()
cleanupOldRequests ==
    LET old == {id \in DOMAIN js.pendingRequests :
                   now - js.pendingRequests[id].timestamp > requestWindow}
    IN
    /\ old # {}
    /\ js' = [js EXCEPT !.pendingRequests =
                 [id \in DOMAIN js.pendingRequests \ old |-> js.pendingRequests[id]]]
    /\ UNCHANGED << now, SECRET_KEY, TOKEN_TTL, authVars, ctx, failed, hp, idem >>

\* the clock advances
Tick ==
    /\ now < MaxTime
    /\ now' = now + 1
    /\ UNCHANGED << SECRET_KEY, TOKEN_TTL, req, resp, locals, eff, logs, held, rest >>

Next ==
    \/ \E bodyOk \in BOOLEAN, username \in Usernames,
          password \in Passwords, dbErr \in BOOLEAN :
          Login(bodyOk, username, password, dbErr)
    \/ \E auth \in AuthValues : Protected(auth)
    \/ Tick

Spec == Init /\ [][Next]_vars

\* the handlers of /login and /v1/me
NextMe ==
    \/ \E bodyOk \in BOOLEAN, username \in Usernames,
          password \in Passwords, dbErr \in BOOLEAN :
          Login(bodyOk, username, password, dbErr)
    \/ \E auth \in MeAuthValues, dbErr \in BOOLEAN : Me(auth, dbErr)
    \/ \E loc \in LocalsValues, dbErr \in BOOLEAN : GetMe(loc, dbErr)
    \/ Tick

SpecMe == Init /\ [][NextMe]_vars

\* a client that logs in, presents tokens over time and notes the outcomes
NextLife ==
    \/ \E password \in Passwords : Login(TRUE, "testuser", password, FALSE)
    \/ \E auth \in LifeAuthValues : Protected(auth)
    \/ PresentIssued
    \/ PresentHeld
    \/ Keep
    \/ Tick

SpecLife == Init /\ [][NextLife]_vars

\* the package defaults of globalvars.go
InitDefault ==
    /\ Init
    /\ SECRET_KEY = DefaultSecretKey
    /\ TOKEN_TTL = 2 * TicksPerSec

\* requests going through Protected at the same time
NextConc ==
    \/ \E r \in Requests, auth \in ConcAuthValues : Receive(r, auth)
    \/ \E r \in Requests : Step(r)
    \/ \E r \in Requests : Attach(r)
    \/ \E r \in Requests : Handle(r)
    \/ \E r \in Requests : Finish(r)
    \/ Tick

SpecConc == InitDefault /\ [][NextConc]_vars

\* login attempts one after another, the failed ones counted
NextAttempts ==
    \/ \E bodyOk \in BOOLEAN, username \in Usernames,
          password \in Passwords, dbErr \in BOOLEAN :
          Login(bodyOk, username, password, dbErr)
    \/ Count

SpecAttempts == Init /\ [][NextAttempts]_vars

\* the password helpers applied to pairs of passwords
NextHash ==
    \E p1 \in HashPasswords, p2 \in HashPasswords, salt \in Salts :
        HashThenCompare(p1, p2, salt)

SpecHash == InitDefault /\ [][NextHash]_vars

\* requests to a route behind the idempotency middleware
NextIdem ==
    \/ \E method \in {"POST", "GET"}, key \in IdemKeys, handlerOk \in BOOLEAN :
          Request(method, key, handlerOk)
    \/ GC
    \/ Tick

SpecIdem == InitDefault /\ [][NextIdem]_vars

\* a page that submits forms through RequestDeduplication
NextJs ==
    \/ \E c \in Calls, formId \in {"login-form", ""} : Submit(c, formId)
    \/ \E c \in Calls, outcome \in Outcomes : Respond(c, outcome)
    \/ \E c \in Calls, bodyOk \in BOOLEAN : ReadBody(c, bodyOk)
    \/ cleanupOldRequests
    \/ Tick

SpecJs == InitDefault /\ [][NextJs]_vars

\* the login handlers and the gate, for what they log
NextLog ==
    \/ \E bodyOk \in BOOLEAN, username \in Usernames,
          password \in Passwords, dbErr \in BOOLEAN :
          Login(bodyOk, username, password, dbErr)
    \/ \E bodyOk \in BOOLEAN, username \in Usernames,
          password \in Passwords, dbErr \in BOOLEAN :
          LoginAttempt(bodyOk, username, password, dbErr)
    \/ \E auth \in LifeAuthValues \cup {EmptyAuth} : Protected(auth)

SpecLog == Init /\ [][NextLog]_vars

\* =================================================================
\* Properties
\* =================================================================
HasToken(body) == "token" \in DOMAIN body

\* the stored user the last login named, if the lookup could find one
LookedUp(u) ==
    /\ req.bodyOk
    /\ ~req.dbErr
    /\ u \in Users
    /\ u.Username = req.username

\* the submitted password is the one the stored hash was made from
Matches(u) == u.Password.kind = "bcrypt" /\ u.Password.key = req.password.head

GateToken == req.op = "Protected" /\ req.auth.kind = "jwt"

\* C1: Login answers 200 / returns a token only when the lookup by the
\* submitted username succeeded and the submitted password verified against
\* that user's stored hash; in every other outcome the body has no token.
C1_TokenOnlyAfterLookupAndVerify ==
    (req.op = "Login" /\ (resp.status = StatusOK \/ HasToken(resp.body))) =>
        /\ \E u \in Users : LookedUp(u) /\ Matches(u)
        /\ resp.status = StatusOK
        /\ HasToken(resp.body)
        /\ eff.repoCalls = 1
        /\ eff.verifyCalls = 1

C1_Witness ==
    /\ req.op = "Login"
    /\ resp.status = StatusOK
    /\ HasToken(resp.body)
    /\ req.username = "testuser"

\* C2: the token Login returns, presented to the gate at once, is accepted
\* and carries as id the stored user's id in canonical UUID text, the same
\* string Login returns as "id" (stated for the default SECRET_KEY and a
\* TTL of at least a second).
C2_LoginTokenPassesGate ==
    (/\ req.op = "Login"
     /\ resp.status = StatusOK
     /\ SECRET_KEY = DefaultSecretKey
     /\ TOKEN_TTL >= TicksPerSec) =>
        LET v == JwtParse(resp.body.token, req.at) IN
        /\ v.valid
        /\ v.claims.id = resp.body.id
        /\ \E u \in Users : LookedUp(u) /\ resp.body.id = UUIDString(u.ID)

\* C3: an HS256 token signed with config.SECRET_KEY whose exp is in the
\* future passes the gate: the next handler runs (200) and the token's
\* claims are stored under "user" (stated for the default SECRET_KEY).
C3_ConfiguredSecretAccepted ==
    (/\ GateToken
     /\ SECRET_KEY = DefaultSecretKey
     /\ req.auth.alg = "HS256"
     /\ req.auth.sigkey = SECRET_KEY
     /\ req.auth.exp # NoExp
     /\ req.at < req.auth.exp * TicksPerSec) =>
        /\ resp.status = StatusOK
        /\ eff.nextCalled
        /\ locals.type # "nil"
        /\ locals.val = [id |-> req.auth.id, exp |-> req.auth.exp]

\* C4: a token whose exp <= now (exp == now included) is rejected, whether
\* or not its signature is valid.
C4_ExpiredRejected ==
    (/\ GateToken
     /\ req.auth.exp # NoExp
     /\ req.auth.exp * TicksPerSec <= req.at) =>
        /\ resp.status = StatusUnauthorized
        /\ ~eff.nextCalled
        /\ locals = NoLocals

C4_Witness ==
    /\ GateToken
    /\ req.auth.alg = "HS256"
    /\ req.auth.sigkey = GateKey
    /\ req.auth.exp > 0
    /\ req.auth.exp * TicksPerSec = req.at
    /\ resp.status = StatusUnauthorized

\* C5: a non-empty Authorization value that is malformed, signed with a
\* secret other than the configured one, or expired gets 401 with message
\* "Invalid or expired token", and the downstream handler does not run
\* (stated for the default SECRET_KEY).
C5_BadCredentialRejected ==
    (/\ req.op = "Protected"
     /\ SECRET_KEY = DefaultSecretKey
     /\ \/ req.auth.kind = "garbage"
        \/ /\ req.auth.kind = "jwt"
           /\ \/ req.auth.sigkey # SECRET_KEY
              \/ (req.auth.exp # NoExp /\ req.auth.exp * TicksPerSec <= req.at)) =>
        /\ resp.status = StatusUnauthorized
        /\ resp.body.message = "Invalid or expired token"
        /\ ~eff.nextCalled

\* C6: a request with a missing or empty Authorization header gets 401 with
\* message "Unauthorized"; no token parsing is attempted and the downstream
\* handler does not run.
C6_MissingHeaderUnauthorized ==
    (req.op = "Protected" /\ req.auth.kind = "empty") =>
        /\ resp.status = StatusUnauthorized
        /\ resp.body = [message |-> "Unauthorized"]
        /\ eff.parseCalls = 0
        /\ ~eff.nextCalled
        /\ locals = NoLocals

C6_Witness ==
    /\ req.op = "Protected"
    /\ req.auth.kind = "empty"
    /\ resp.status = StatusUnauthorized

\* C7: the gate's response (status and whole body) is the same for every
\* rejected non-empty credential: two consecutive rejections, whatever
\* their reasons, carry the same status and the same body.
GateRejected ==
    /\ req.op = "Protected"
    /\ req.auth.kind # "empty"
    /\ resp.status # StatusOK

C7_RejectionsIndistinguishable ==
    [][(GateRejected /\ GateRejected') =>
          (resp'.status = resp.status /\ resp'.body = resp.body)]_vars

\* C8: a token without an exp claim is rejected even when its signature is
\* valid.
C8_MissingExpRejected ==
    (GateToken /\ req.auth.exp = NoExp) =>
        /\ resp.status = StatusUnauthorized
        /\ ~eff.nextCalled

C10_WrongPasswordUnauthorized ==
    \A u \in Users :
        (req.op = "Login" /\ LookedUp(u) /\ u.Password.kind = "bcrypt"
         /\ u.Password.key # req.password.head) =>
            /\ resp.status = StatusUnauthorized
            /\ ~HasToken(resp.body)

C10_Witness ==
    /\ req.op = "Login"
    /\ req.bodyOk
    /\ ~req.dbErr
    /\ req.username = "testuser"
    /\ req.password = Pw("wrong-password")
    /\ resp.status = StatusUnauthorized

\* C11: when the user lookup fails, for "no such user" as for a store error,
\* Login answers the same 401 response, and neither password verification
\* nor token issuance happens.
LookupFails ==
    /\ req.op = "Login"
    /\ req.bodyOk
    /\ (req.dbErr \/ ~\E u \in Users : u.Username = req.username)

C11_LookupFailureUnauthorized ==
    LookupFails =>
        /\ resp.status = StatusUnauthorized
        /\ resp.body = [text |-> "Unauthorized"]
        /\ eff.repoCalls = 1
        /\ eff.verifyCalls = 0
        /\ ~HasToken(resp.body)

C11_Witness ==
    /\ LookupFails
    /\ req.dbErr
    /\ req.username = "testuser"
    /\ resp.status = StatusUnauthorized

\* C12: when password verification fails with an error other than the
\* mismatch error (a stored hash that is no bcrypt hash), Login answers 500,
\* never 401 and never 200.
C12_VerifyErrorIsServerFault ==
    \A u \in Users :
        (req.op = "Login" /\ LookedUp(u) /\ u.Password.kind # "bcrypt") =>
            /\ resp.status = StatusInternalServerError
            /\ ~HasToken(resp.body)

C12_Witness ==
    /\ req.op = "Login"
    /\ req.bodyOk
    /\ ~req.dbErr
    /\ req.username = "legacy"
    /\ resp.status = StatusInternalServerError

\* C13: a login request whose body cannot be parsed gets 400 and the user
\* store is not queried for it.
C13_BadBodyNoLookup ==
    (req.op = "Login" /\ ~req.bodyOk) =>
        /\ resp.status = StatusBadRequest
        /\ eff.repoCalls = 0
        /\ eff.verifyCalls = 0
        /\ ~HasToken(resp.body)

C13_Witness ==
    /\ req.op = "Login"
    /\ ~req.bodyOk
    /\ req.username = "testuser"
    /\ req.password = Pw("password123")
    /\ resp.status = StatusBadRequest

\* C14: with an empty signing secret, token issuance fails and Login answers
\* with a server fault; no token signed with an empty key is returned.
C14_EmptySecretNoToken ==
    (req.op = "Login" /\ SECRET_KEY = "") =>
        /\ resp.status # StatusOK
        /\ ~HasToken(resp.body)

\* C15: no response of Login or GetMe, success or failure, carries the
\* stored password hash or the submitted plaintext password in its body.
BodyKeys ==
    {"token", "id", "text", "message", "error", "name", "email", "username"}
TextKeys == {"text", "message", "error", "name", "email", "username"}
PasswordTexts ==
    {p.head : p \in Passwords}
    \cup {u.Password.text : u \in {v \in Users : v.Password.kind = "plain"}}

C15_NoPasswordInBody ==
    (req.op \in {"Login", "GetMe", "Me"}) =>
        /\ DOMAIN resp.body \subseteq BodyKeys
        /\ \A k \in DOMAIN resp.body \cap TextKeys :
              resp.body[k] \notin PasswordTexts

C15_Witness ==
    /\ req.op = "GetMe"
    /\ resp.status = StatusOK
    /\ resp.body.username = "legacy"

\* C16: on GET /v1/me, whenever Protected accepts a token whose id claim is
\* the UUID of a stored user, GetMe reads that id from the identity the gate
\* attached, looks the user up and answers 200 with that user's profile.
C16_GateIdentityReadable ==
    (/\ req.op = "Me"
     /\ eff.nextCalled
     /\ ~req.dbErr
     /\ \E u \in Users : UUIDString(u.ID) = req.auth.id) =>
        /\ resp.status = StatusOK
        /\ resp.body.id = req.auth.id
        /\ eff.repoCalls = 1

\* C17: GetMe answers 401 and does not query the user store when the request
\* carries no identity, the identity has no string id claim, or the id claim
\* is not a valid UUID.
ValidIDTexts ==
    {UUIDString(u.ID) : u \in Users}
    \cup {encodeHex(u.ID) : u \in Users}
    \cup {UUIDString(UnknownID)}

NoUsableID(loc) ==
    \/ loc.type = "nil"
    \/ /\ loc.type = MapType
       /\ \/ "id" \notin DOMAIN loc.val
          \/ "idType" \in DOMAIN loc.val
          \/ loc.val.id \notin ValidIDTexts

C17_NoIdentityUnauthorized ==
    (req.op = "GetMe" /\ NoUsableID(req.locals)) =>
        /\ resp.status = StatusUnauthorized
        /\ eff.repoCalls = 0

C17_Witness ==
    /\ req.op = "GetMe"
    /\ req.locals.type = MapType
    /\ "id" \in DOMAIN req.locals.val
    /\ req.locals.val.id = << "x" >>
    /\ resp.status = StatusUnauthorized

\* C18: when the identity carries a valid UUID id but the store lookup by
\* that id fails, GetMe answers 404.
UsableID(loc) ==
    /\ loc.type = MapType
    /\ "id" \in DOMAIN loc.val
    /\ "idType" \notin DOMAIN loc.val
    /\ loc.val.id \in ValidIDTexts

StoredUnder(text) ==
    \E u \in Users : UUIDString(u.ID) = text \/ encodeHex(u.ID) = text

C18_LookupFailureNotFound ==
    (/\ req.op = "GetMe"
     /\ UsableID(req.locals)
     /\ (req.dbErr \/ ~StoredUnder(req.locals.val.id))) =>
        /\ resp.status = StatusNotFound
        /\ eff.repoCalls = 1

C18_Witness ==
    /\ req.op = "GetMe"
    /\ UsableID(req.locals)
    /\ req.locals.val.id = UUIDString(UnknownID)
    /\ ~req.dbErr
    /\ resp.status = StatusNotFound

\* C19: verification is read-only: a token validated at two times both
\* before its exp, with any other requests in between, gets the same
\* acceptance and the same claims both times.
BeforeExp(auth, t) == auth.exp = NoExp \/ t < auth.exp * TicksPerSec

HeldPresented ==
    /\ held.kind = "held"
    /\ req.op = "Protected"
    /\ req.auth = held.auth
    /\ req.at >= held.at

C19_ValidateIdempotent ==
    (/\ HeldPresented
     /\ BeforeExp(held.auth, held.at)
     /\ BeforeExp(held.auth, req.at)) =>
        /\ resp.status = held.status
        /\ locals = held.locals

C19_Witness ==
    /\ HeldPresented
    /\ held.status = StatusOK
    /\ held.auth.exp # NoExp
    /\ req.at > held.at
    /\ BeforeExp(held.auth, req.at)
    /\ resp.status = StatusOK

\* C20: expiry is the only way a token stops working: a token accepted at
\* some time is accepted at every later time before its exp, whatever
\* logins and requests come in between, and rejected at every time from its
\* exp on.
C20_OnlyExpiryEnds ==
    (HeldPresented /\ held.status = StatusOK) =>
        /\ BeforeExp(held.auth, req.at) => resp.status = StatusOK
        /\ ~BeforeExp(held.auth, req.at) => resp.status = StatusUnauthorized

C20_Witness ==
    /\ HeldPresented
    /\ held.status = StatusOK
    /\ ~BeforeExp(held.auth, req.at)
    /\ resp.status = StatusUnauthorized

\* C21: under any interleaving of requests handled at the same time, the
\* identity the downstream handler of a request reads is exactly the claims
\* of the token presented on that request; a step of one request changes no
\* other request's context and no step changes the configuration.
OwnClaims(c) == [type |-> "jwt.MapClaims", val |-> Claims(c.auth)]

C21_IdentityIsOwnToken ==
    [][/\ SECRET_KEY' = SECRET_KEY
       /\ TOKEN_TTL' = TOKEN_TTL
       /\ \A r \in Requests :
             ctx'[r] # ctx[r] => \A q \in Requests \ {r} : ctx'[q] = ctx[q]
       /\ \A r \in Requests :
             ctx'[r].pc = "Done" => ctx'[r].seen = OwnClaims(ctx'[r])]_vars

C21_Witness ==
    \E r \in Requests, q \in Requests :
        /\ r > q
        /\ ctx[r].pc = "Done"
        /\ ctx[q].pc \in {"Valid", "Done"}
        /\ ctx[q].auth.id # ctx[r].auth.id
        /\ ctx[r].seen = OwnClaims(ctx[r])

\* C29: the verifier's stages are strictly ordered: a request reaches Valid
\* (identity attached, next handler invoked) only after passing parsing, then
\* the signature check, then the expiry check, in that order; a failure at
\* any stage goes to Rejected, and a rejected request never has an identity
\* attached.
IsPrefix(p, q) == Len(p) <= Len(q) /\ p = SubSeq(q, 1, Len(p))

C29_StagesInOrder ==
    \A r \in Requests :
        LET c == ctx[r] IN
        /\ IsPrefix(c.path, Stages)
        /\ c.pc \in {"Valid", "Done"} =>
              /\ c.path = Stages
              /\ c.locals = OwnClaims(c)
              /\ c.auth.alg \in HMACAlgs
              /\ c.auth.sigkey = GateKey
        /\ c.pc = "Rejected" =>
              /\ Len(c.path) < Len(Stages) - 1
              /\ c.status = StatusUnauthorized
              /\ c.locals = NoLocals
              /\ c.seen = NoLocals
        /\ c.locals # NoLocals => c.pc \in {"Valid", "Done"}

C29_Witness ==
    \E r \in Requests, q \in Requests :
        /\ ctx[r].pc = "Rejected"
        /\ ctx[r].path = << "Parsed", "SignatureChecked" >>
        /\ ctx[q].pc = "Valid"
        /\ ctx[q].path = Stages

\* C22 as stated: Login keeps no memory of earlier attempts: each request
\* performs exactly one store lookup and at most one password verification,
\* and after any number of failed attempts for a username a Login with the
\* correct password still answers 200.
C22_OneLookupEachRequest ==
    (req.op = "Login") =>
        /\ eff.repoCalls = 1
        /\ eff.verifyCalls <= 1
        /\ \A u \in Users : (LookedUp(u) /\ Matches(u)) => resp.status = StatusOK

\* C22 as amended: each request whose body binds performs exactly one store
\* lookup and at most one password verification (a request whose body does
\* not bind performs none), and after any number of failed attempts for a
\* username a Login with the correct password still answers 200.
C22_NoMemoryOfAttempts ==
    (req.op = "Login") =>
        /\ req.bodyOk => eff.repoCalls = 1
        /\ ~req.bodyOk => eff.repoCalls = 0 /\ eff.verifyCalls = 0
        /\ eff.verifyCalls <= 1
        /\ \A u \in Users : (LookedUp(u) /\ Matches(u)) => resp.status = StatusOK

C22_Witness ==
    /\ failed.n = MaxFailed
    /\ req.op = "Login"
    /\ req.username = "testuser"
    /\ req.password = Pw("password123")
    /\ \E u \in Users : LookedUp(u) /\ Matches(u)
    /\ resp.status = StatusOK
    /\ eff.repoCalls = 1
    /\ eff.verifyCalls = 1

\* C23: for all passwords p1 # p2, CompareHashAndPassword(HashPass(p1), p2)
\* fails with the mismatch error and never with another error, and for
\* every p HashPass(p) succeeds and CompareHashAndPassword(HashPass(p), p)
\* returns nil.
C23_HashThenVerify ==
    (hp.op = "HashThenCompare") =>
        /\ hp.hashErr = nil
        /\ hp.p1 # hp.p2 => hp.cmp = ErrMismatchedHashAndPassword
        /\ hp.p1 = hp.p2 => hp.cmp = nil

\* C24 as stated: with the idempotency middleware installed, for any
\* sequence of POST requests carrying the same valid X-Idempotency-Key within
\* the configured lifetime the route handler runs exactly once and every
\* repeat receives the first response with status 200; after the lifetime
\* has elapsed a request with the same key is processed by the handler again.
Repeat ==
    /\ idem.last.op = "Request"
    /\ idem.last.method = "POST"
    /\ idem.last.key \in StoreKeys
    /\ idem.last.before.at >= 0

ServedFromCache ==
    /\ ~idem.last.ran
    /\ idem.last.resp = idem.last.before.entry
    /\ idem.last.resp.status = StatusOK

InLifetimeSeconds ==
    Timestamp(idem.last.at)
        < Timestamp(idem.last.before.at) + (Lifetime \div TicksPerSec)

C25_DuplicateConflict ==
    (Repeat /\ idem.last.at - idem.last.before.at < Lifetime) =>
        idem.last.resp.status = StatusConflict

\* C26: in the browser client, if submitForm is called again for the same
\* formId while the earlier submission is still in flight and within the
\* window, the second request carries the same X-Idempotency-Key as the
\* first; a new key is generated only when no such pending submission exists.
C26_DoubleClickSameKey ==
    \A c \in Calls :
        (js.calls[c].pc # "none" /\ js.calls[c].pendingSame # {}) =>
            /\ js.calls[c].key \in js.calls[c].pendingSame
            /\ ~js.calls[c].isNew

\* C30: in the browser client, for each submitForm call the onError callback
\* is invoked at most once, whatever the outcome (409, 429, other non-OK
\* status, network failure or JSON parse failure), and it is not invoked at
\* all on a successful response.
C30_OnErrorAtMostOnce ==
    \A c \in Calls :
        /\ js.calls[c].onError <= 1
        /\ js.calls[c].pc = "resolved" => js.calls[c].onError = 0

\* C27: on every Login path and every gate rejection, no log call receives
\* the submitted plaintext password or the token string among its arguments.
LogArgs == {logs[i].args[j] : <<i, j>> \in
               {<<i, j>> \in (1 .. 4) \X (1 .. 4) :
                    i <= Len(logs) /\ j <= Len(logs[i].args)}}

CarriesPassword(a, password) ==
    \/ a.kind = "string" /\ a.val = password.head
    \/ a.kind = "params" /\ a.val.Password = password

CarriesToken(a, token) == a.kind = "token" /\ a.val = token

C27_NoSecretInLogs ==
    /\ (req.op \in {"Login", "LoginAttempt"} /\ req.bodyOk) =>
          \A a \in LogArgs : ~CarriesPassword(a, req.password)
    /\ (req.op \in {"Login", "LoginAttempt"} /\ HasToken(resp.body)) =>
          \A a \in LogArgs : ~CarriesToken(a, resp.body.token)
    /\ (req.op = "Protected" /\ resp.status # StatusOK) =>
          \A a \in LogArgs : ~CarriesToken(a, req.auth)

\* C28 as stated: every token Login issues carries exp equal to the issuance
\* time plus the configured TOKEN_TTL in whole unix seconds, and an id claim;
\* with a positive TTL the exp of an issued token is strictly greater than
\* its issuance time.
Issued == req.op = "Login" /\ resp.status = StatusOK /\ HasToken(resp.body)

ExpIsIssuancePlusTTL ==
    /\ resp.body.token.exp = (req.at + TOKEN_TTL) \div TicksPerSec
    /\ resp.body.token.exp # NoExp
    /\ \E u \in Users : LookedUp(u) /\ resp.body.token.id = UUIDString(u.ID)

====
